---- MODULE Spec2Model ----
(***************************************************************************)
(* Model of src/healthart.py: a Streamlit script that runs the OAuth2      *)
(* authorization-code flow against WHOOP, keeps the token in the session   *)
(* and turns the recovery record into an image request.                    *)
(*                                                                         *)
(* One execution of main() is a "run".  A run is triggered by the browser  *)
(* loading a URL (Navigate) or by a click on a button that the previous    *)
(* run rendered (Click).  The run is split at line 150 into two steps:     *)
(* the callback handling of lines 108-148 and the page body of lines       *)
(* 150-240; pc is the position of the script between them.                 *)
(*                                                                         *)
(* query_params maps a key to the list of its values, which is what the    *)
(* indexing query_params['state'][0] of lines 111-112 takes the head of.   *)
(***************************************************************************)
EXTENDS Integers, Sequences, FiniteSets, TLC

\* ---------------------------------------------------------------- bounds
NumStates ==
    2
NumTokens ==
    2
NumCodes ==
    1
MaxValues ==
    1

\* ------------------------------------------------------------- constants
CLIENT_ID ==
    "client-id"
CLIENT_SECRET ==
    "client-secret"
REDIRECT_URI ==
    "https://healthartv1.streamlit.app/"
AUTH_URL ==
    "https://api.prod.whoop.com/oauth/oauth2/auth"
TOKEN_URL ==
    "https://api.prod.whoop.com/oauth/oauth2/token"
API_BASE_URL ==
    "https://api.prod.whoop.com/developer"

\* Python's None for st.session_state.oauth_token
None ==
    "None"

\* ---------------------------------------------------------------- values
StateNames ==
    <<"st1", "st2", "st3", "st4">>
\* the values secrets.token_urlsafe(16) can return: never the empty string
States ==
    {StateNames[i] : i \in 1..NumStates}
TokenNames ==
    <<"tok1", "tok2", "tok3", "tok4">>
\* the JSON bodies a successful token response can carry
Tokens ==
    {TokenNames[i] : i \in 1..NumTokens}
CodeNames ==
    <<"code1", "code2", "code3">>
Codes ==
    {CodeNames[i] : i \in 1..NumCodes}

\* what a browser can put in ?state= : any issued or forged value, or nothing
StateValues ==
    States \cup {""}
CodeValues ==
    Codes \cup {""}

\* the lists of values a key of the URL can have: no value when the key is
\* absent, else a first value from S and up to MaxValues - 1 further values.
\* The script reads the first value only (lines 111-112), so every further
\* value is represented by the one value "more"
ValueLists(S) ==
    {<<>>} \cup {<<v>> \o [i \in 1..n |-> "more"] : v \in S, n \in 0..(MaxValues - 1)}

\* st.query_params: each key of the URL with the list of its values
QueryParams ==
    [code : ValueLists(CodeValues), state : ValueLists(StateValues)]

NoParams ==
    [code |-> <<>>, state |-> <<>>]

\* 'key' in query_params
HasKey(qp, key) ==
    qp[key] # <<>>

VARIABLES
    oauth_state,      \* st.session_state.oauth_state
    oauth_token,      \* st.session_state.oauth_token
    query_params,     \* the query string of the page
    pc,               \* "idle" between runs, "body" between line 148 and 150
    clicked,          \* the button whose click triggered this run, or "none"
    rendered,         \* the buttons the last completed run put on the page
    received_state,   \* line 112 of this run ("-" when no callback was read)
    result,           \* what the callback handling of this run reported
    token_response,   \* the provider's answer to the POST of line 132
    token_requests,   \* the POSTs to TOKEN_URL made in this run
    auth_url,         \* the authorization link shown by this run
    fetch,            \* outcome of the GET of line 192 in this run
    art_requested,    \* generate_ai_art was called in this run
    page_error,       \* what lines 186-233 of this run reported
    snapshot,         \* recovery_score and additional_metrics of line 216
    full_prompt,      \* line 66-68: the prompt built from snapshot
    issued,           \* history: states generated in this session
    issuedSinceLogout,\* history: states generated since the last logout
    succeeded,        \* history: states whose callback stored a token
    failed,           \* history: states whose callback's exchange failed
    tok0              \* history: oauth_token when this run started

vars ==
    <<oauth_state, oauth_token, query_params, pc, clicked, rendered,
      received_state, result, token_response, token_requests, auth_url,
      fetch, art_requested, page_error, snapshot, full_prompt,
      issued, issuedSinceLogout, succeeded, failed, tok0>>

hist ==
    <<issued, issuedSinceLogout, succeeded, failed>>

\* ---------------------------------------------------------------- helpers
NoUrl ==
    [base |-> "", query |-> <<>>]

NoResponse ==
    [outcome |-> "none", token |-> None]

\* the answers requests.post(TOKEN_URL) / raise_for_status() / json() can give
TokenResponses ==
    {[outcome |-> "ok", token |-> t] : t \in Tokens}
    \cup {[outcome |-> o, token |-> None] :
             o \in {"http_error", "transport_error", "bad_json"}}

\* truthiness of a Python str / None
Truthy(v) ==
    v # "" /\ v # None

generate_state ==
    States

Param(url, key) ==
    LET hits == {i \in DOMAIN url.query : url.query[i][1] = key}
    IN  IF hits = {} THEN "" ELSE url.query[CHOOSE i \in hits : TRUE][2]

ParamKeys(url) ==
    {url.query[i][1] : i \in DOMAIN url.query}

\* ------------------------------------------- generate_ai_art, lines 22-68
\* the range of recovery_score named by the docstring of generate_ai_art
MaxScore ==
    100

Scores ==
    0..MaxScore

\* the keys line 211 keeps, in the order lines 55-63 test them
MetricKeys ==
    <<"sleep_quality", "strain", "hrv">>

\* values of the optional metrics, on both sides of the thresholds in use
MetricValues ==
    [sleep_quality |-> {70, 71}, strain |-> {15, 18}, hrv |-> {55}]

NoMetrics ==
    [k \in {} |-> 0]

\* the dicts generate_ai_art can get as additional_metrics
MetricsMaps ==
    UNION {{m \in [K -> 0..MaxScore] : \A k \in K : m[k] \in MetricValues[k]} :
              K \in SUBSET {"sleep_quality", "strain", "hrv"}}

\* the arguments of one call of generate_ai_art
Snapshots ==
    [recovery_score : Scores, additional_metrics : MetricsMaps]

\* no record was extracted: recovery_score is None
NoSnapshot ==
    [recovery_score |-> -1, additional_metrics |-> NoMetrics]

\* a sentence of the prompt: the text of its f-string and the number put in it
Clause(text, value) ==
    [text |-> text, value |-> value]

Fixed(text) ==
    [text |-> text, value |-> -1]

NoPrompt ==
    <<>>

\* line 34
base_prompt ==
    Fixed("Create an abstract digital artwork representing health data with the following elements:")

\* variant of color_prompt whose first band starts at 80
color_prompt_From80(recovery_score) ==
    IF recovery_score >= 80
    THEN Clause("Dominant colors are vibrant greens and blues, representing high recovery ({recovery_score}% recovery score).", recovery_score)
    ELSE IF recovery_score > 50
    THEN Clause("Mix of warm yellows and cool blues, balancing moderate recovery ({recovery_score}% recovery score).", recovery_score)
    ELSE Clause("Subdued reds and greys dominate, indicating low recovery ({recovery_score}% recovery score).", recovery_score)

\* line 37-42
color_prompt(recovery_score) ==
    IF recovery_score > 80
    THEN Clause("Dominant colors are vibrant greens and blues, representing high recovery ({recovery_score}% recovery score).", recovery_score)
    ELSE IF recovery_score > 50
    THEN Clause("Mix of warm yellows and cool blues, balancing moderate recovery ({recovery_score}% recovery score).", recovery_score)
    ELSE Clause("Subdued reds and greys dominate, indicating low recovery ({recovery_score}% recovery score).", recovery_score)

\* line 45-50
pattern_prompt(recovery_score) ==
    << Fixed("Incorporate flowing, organic shapes to represent flexibility and adaptability."),
       Fixed("Use repeating geometric patterns, with their regularity affected by the recovery score."),
       Fixed(IF recovery_score > 70
             THEN "Dense network of interconnected lines symbolizing bodily systems."
             ELSE "Sparse network of interconnected lines symbolizing bodily systems."),
       Fixed(IF recovery_score > 60
             THEN "Abstract circular forms representing energy levels."
             ELSE "Abstract angular forms representing energy levels.") >>

\* line 55-57
sleep_prompt(sleep_quality) ==
    Clause(IF sleep_quality > 70
           THEN "Represent sleep quality ({sleep_quality}%) with smooth wave-like patterns."
           ELSE "Represent sleep quality ({sleep_quality}%) with jagged wave-like patterns.",
           sleep_quality)

\* variant of strain_prompt that picks an adjective by a threshold on strain
strain_prompt_ByThreshold(strain) ==
    Clause(IF strain > 15
           THEN "Depict strain ({strain}%) with bold, intertwined lines."
           ELSE "Depict strain ({strain}%) with compact, intertwined lines.",
           strain)

\* line 58-60
strain_prompt(strain) ==
    Clause("Depict strain ({strain}%) with compact, intertwined lines.", strain)

\* line 61-63
hrv_prompt(hrv) ==
    Clause("Visualize HRV ({hrv}) with fluctuating rhythms in the artwork.", hrv)

\* variant of metric_prompts that appends the HRV clause before the strain clause
metric_prompts_HrvFirst(additional_metrics) ==
    LET has(k) == k \in DOMAIN additional_metrics
    IN  (IF has("sleep_quality")
         THEN <<sleep_prompt(additional_metrics["sleep_quality"])>> ELSE <<>>)
        \o (IF has("hrv")
            THEN <<hrv_prompt(additional_metrics["hrv"])>> ELSE <<>>)
        \o (IF has("strain")
            THEN <<strain_prompt(additional_metrics["strain"])>> ELSE <<>>)

\* line 53-63: an empty dict fails the test of line 54 and gives no clause
metric_prompts(additional_metrics) ==
    LET has(k) == k \in DOMAIN additional_metrics
    IN  IF DOMAIN additional_metrics = {}
        THEN <<>>
        ELSE (IF has("sleep_quality")
              THEN <<sleep_prompt(additional_metrics["sleep_quality"])>> ELSE <<>>)
             \o (IF has("strain")
                 THEN <<strain_prompt(additional_metrics["strain"])>> ELSE <<>>)
             \o (IF has("hrv")
                 THEN <<hrv_prompt(additional_metrics["hrv"])>> ELSE <<>>)

\* line 66-68: the sentences joined by single spaces, in this order
FullPrompt(recovery_score, additional_metrics) ==
    <<base_prompt>> \o <<color_prompt(recovery_score)>>
        \o pattern_prompt(recovery_score)
        \o metric_prompts(additional_metrics)

\* the texts of the sentences of a prompt
Texts(prompt) ==
    {prompt[i].text : i \in DOMAIN prompt}

\* ------------------------------------------------------------ page output
NoError ==
    [message |-> "", detail |-> ""]

Init ==
    /\ oauth_state = ""
    /\ oauth_token = None
    /\ query_params = NoParams
    /\ pc = "idle"
    /\ clicked = "none"
    /\ rendered = {"login"}
    /\ received_state = "-"
    /\ result = "none"
    /\ token_response = NoResponse
    /\ token_requests = <<>>
    /\ auth_url = NoUrl
    /\ fetch = "none"
    /\ art_requested = FALSE
    /\ page_error = NoError
    /\ snapshot = NoSnapshot
    /\ full_prompt = NoPrompt
    /\ issued = {}
    /\ issuedSinceLogout = {}
    /\ succeeded = {}
    /\ failed = {}
    /\ tok0 = None

\* ------------------------------------------------- lines 108-148 of main()
\* line 114-116: st.error("State parameter is missing.")
MissingState(qp) ==
    /\ result' = "MissingState"
    /\ token_response' = NoResponse
    /\ token_requests' = <<>>
    /\ query_params' = qp
    /\ UNCHANGED <<oauth_state, oauth_token, hist>>

\* variant of InvalidState that reports the error but keeps the token
InvalidState_KeepsToken(qp) ==
    /\ result' = "InvalidState"
    /\ oauth_token' = oauth_token
    /\ token_response' = NoResponse
    /\ token_requests' = <<>>
    /\ query_params' = qp
    /\ UNCHANGED <<oauth_state, hist>>

\* line 117-120: st.error("Invalid state parameter..."), the token is dropped
InvalidState(qp) ==
    /\ result' = "InvalidState"
    /\ oauth_token' = None
    /\ token_response' = NoResponse
    /\ token_requests' = <<>>
    /\ query_params' = qp
    /\ UNCHANGED <<oauth_state, hist>>

\* line 124-130
token_data(received_code) ==
    [grant_type |-> "authorization_code",
     code |-> received_code,
     redirect_uri |-> REDIRECT_URI,
     client_id |-> CLIENT_ID,
     client_secret |-> CLIENT_SECRET]

\* variant of StoreToken that does not overwrite a token already stored
StoreToken_KeepsOld(qp, resp) ==
    /\ oauth_token' = (IF oauth_token # None THEN oauth_token ELSE resp.token)
    /\ result' = "Success"
    /\ query_params' = NoParams

\* variant of StoreToken that leaves the query parameters in the URL
StoreToken_KeepsParams(qp, resp) ==
    /\ oauth_token' = resp.token
    /\ result' = "Success"
    /\ query_params' = qp

\* line 135-139: the response body becomes the session's token and the query
\* parameters are cleared
StoreToken(qp, resp) ==
    /\ oauth_token' = resp.token
    /\ result' = "Success"
    /\ query_params' = NoParams

\* variant of ExchangeFailed that drops the stored token on a failure
ExchangeFailed_ClearsToken(qp, resp) ==
    /\ oauth_token' = None
    /\ result' \in (IF resp.outcome = "bad_json"
                    THEN {"TokenExchangeFailed", "UnexpectedError"}
                    ELSE {"TokenExchangeFailed"})
    /\ query_params' = qp

\* line 141-148: both handlers only report; an undecodable body is a
\* RequestException or a ValueError depending on the requests release
ExchangeFailed(qp, resp) ==
    /\ oauth_token' = oauth_token
    /\ result' \in (IF resp.outcome = "bad_json"
                    THEN {"TokenExchangeFailed", "UnexpectedError"}
                    ELSE {"TokenExchangeFailed"})
    /\ query_params' = qp

\* line 121-148
Exchange(qp, received_code, rs) ==
    \E resp \in TokenResponses :
        /\ token_requests' = <<token_data(received_code)>>
        /\ token_response' = resp
        /\ IF resp.outcome = "ok"
           THEN /\ StoreToken(qp, resp)
                /\ succeeded' = succeeded \cup {rs}
                /\ failed' = failed
           ELSE /\ ExchangeFailed(qp, resp)
                /\ failed' = failed \cup {rs}
                /\ succeeded' = succeeded
        /\ UNCHANGED <<oauth_state, issued, issuedSinceLogout>>

\* variant of HandleCallback without the test of line 114
HandleCallback_NoMissingCheck(qp) ==
    /\ tok0' = oauth_token
    /\ auth_url' = NoUrl
    /\ fetch' = "none"
    /\ art_requested' = FALSE
    /\ page_error' = NoError
    /\ snapshot' = NoSnapshot
    /\ full_prompt' = NoPrompt
    /\ pc' = "body"
    /\ IF HasKey(qp, "code") /\ HasKey(qp, "state")
       THEN LET code == Head(qp.code)
                rs == Head(qp.state)
            IN  /\ received_state' = rs
                /\ IF rs # oauth_state
                   THEN InvalidState(qp)
                   ELSE Exchange(qp, code, rs)
       ELSE /\ received_state' = "-"
            /\ result' = "none"
            /\ token_response' = NoResponse
            /\ token_requests' = <<>>
            /\ query_params' = qp
            /\ UNCHANGED <<oauth_state, oauth_token, hist>>

\* line 108-148 with query_params = qp
HandleCallback(qp) ==
    /\ tok0' = oauth_token
    /\ auth_url' = NoUrl
    /\ fetch' = "none"
    /\ art_requested' = FALSE
    /\ page_error' = NoError
    /\ snapshot' = NoSnapshot
    /\ full_prompt' = NoPrompt
    /\ pc' = "body"
    /\ IF HasKey(qp, "code") /\ HasKey(qp, "state")
       THEN LET code == Head(qp.code)
                rs == Head(qp.state)
            IN  /\ received_state' = rs
                /\ IF ~Truthy(rs)
                   THEN MissingState(qp)
                   ELSE IF rs # oauth_state
                        THEN InvalidState(qp)
                        ELSE Exchange(qp, code, rs)
       ELSE /\ received_state' = "-"
            /\ result' = "none"
            /\ token_response' = NoResponse
            /\ token_requests' = <<>>
            /\ query_params' = qp
            /\ UNCHANGED <<oauth_state, oauth_token, hist>>

\* the browser loads the page with some query string: the provider's
\* redirect, a forged link, a replayed link or a plain reload
Navigate ==
    /\ pc = "idle"
    /\ clicked' = "none"
    /\ UNCHANGED rendered
    /\ \E qp \in QueryParams : HandleCallback(qp)

\* a click on a button of the page reruns the script with the same URL
Click ==
    /\ pc = "idle"
    /\ \E b \in rendered : clicked' = b
    /\ UNCHANGED rendered
    /\ HandleCallback(query_params)

\* ------------------------------------------------- lines 150-240 of main()
\* line 160-166
AuthorizationUrl(st) ==
    [base |-> AUTH_URL,
     query |-> << <<"client_id", CLIENT_ID>>,
                  <<"response_type", "code">>,
                  <<"redirect_uri", REDIRECT_URI>>,
                  <<"state", st>> >>]

\* variant of BeginLogin that writes the new state under the token key too
BeginLogin_WritesTokenKey ==
    IF ~Truthy(oauth_state)
    THEN \E st \in generate_state :
            /\ oauth_state' = st
            /\ oauth_token' = st
            /\ auth_url' = AuthorizationUrl(st)
            /\ issued' = issued \cup {st}
            /\ issuedSinceLogout' = issuedSinceLogout \cup {st}
            /\ succeeded' = succeeded \ {st}
            /\ failed' = failed \ {st}
    ELSE UNCHANGED <<oauth_state, oauth_token, auth_url, hist>>

\* variant of BeginLogin without the test of line 153
BeginLogin_AlwaysIssues ==
    \E st \in generate_state :
        /\ oauth_state' = st
        /\ auth_url' = AuthorizationUrl(st)
        /\ issued' = issued \cup {st}
        /\ issuedSinceLogout' = issuedSinceLogout \cup {st}
        /\ succeeded' = succeeded \ {st}
        /\ failed' = failed \ {st}
        /\ UNCHANGED oauth_token

\* line 152-170: the body of `if st.button("Log in with WHOOP")`
BeginLogin ==
    IF ~Truthy(oauth_state)
    THEN \E st \in generate_state :
            /\ oauth_state' = st
            /\ auth_url' = AuthorizationUrl(st)
            /\ issued' = issued \cup {st}
            /\ issuedSinceLogout' = issuedSinceLogout \cup {st}
            /\ succeeded' = succeeded \ {st}
            /\ failed' = failed \ {st}
            /\ UNCHANGED oauth_token
    ELSE UNCHANGED <<oauth_state, oauth_token, auth_url, hist>>

\* variant of Logout that forgets the token but keeps the stored state
Logout_KeepsState ==
    /\ oauth_token' = None
    /\ oauth_state' = oauth_state
    /\ issuedSinceLogout' = {}
    /\ UNCHANGED <<auth_url, issued, succeeded, failed>>

\* line 237-240: the body of `if st.button("Logout")`
Logout ==
    /\ oauth_token' = None
    /\ oauth_state' = ""
    /\ issuedSinceLogout' = {}
    /\ UNCHANGED <<auth_url, issued, succeeded, failed>>

\* what requests.get(.../v1/recovery), raise_for_status() and json() can give
FetchOutcomes ==
    {"records", "no_records", "no_score", "http_401", "http_403", "http_error",
     "transport_error", "bad_json"}

\* first records of a response that has some: the score and the raw metrics
SampleRecords ==
    {[recovery_score |-> 85, metrics |-> NoMetrics],
     [recovery_score |-> 40, metrics |-> [strain |-> 18, respiratory_rate |-> 14]]}

\* line 207-212: the metrics of the record, restricted to the three known keys
additional_metrics(metrics) ==
    [k \in DOMAIN metrics \cap {"sleep_quality", "strain", "hrv"} |-> metrics[k]]

\* line 226-233: what st.error shows for an exception of the try block
FetchError(o) ==
    CASE o = "http_401" ->
            {[message |-> "Error fetching WHOOP data", detail |-> "401 Client Error: Unauthorized"]}
      [] o = "http_403" ->
            {[message |-> "Error fetching WHOOP data", detail |-> "403 Client Error: Forbidden"]}
      [] o = "http_error" ->
            {[message |-> "Error fetching WHOOP data", detail |-> "500 Server Error"]}
      [] o = "transport_error" ->
            {[message |-> "Error fetching WHOOP data", detail |-> "connection failed"]}
      [] o = "bad_json" ->
            {[message |-> m, detail |-> "response is not JSON"] :
                m \in {"Error fetching WHOOP data", "Unexpected error"}}
      [] o = "no_score" ->
            {[message |-> "Unexpected error", detail |-> "KeyError"]}

\* line 214-224 for a record: the prompt is built and sent to the generator,
\* which returns an image or fails
DrawArt(record) ==
    LET metrics == additional_metrics(record.metrics)
    IN  /\ snapshot' = [recovery_score |-> record.recovery_score,
                        additional_metrics |-> metrics]
        /\ full_prompt' = FullPrompt(record.recovery_score, metrics)
        /\ art_requested' = TRUE
        /\ page_error' \in {NoError,
                            [message |-> "Failed to generate AI art.", detail |-> ""]}

\* variant of NoRecords that draws with a score of 0 when there is no record
NoRecords_DefaultScore ==
    /\ page_error' = [message |-> "No recovery data available.", detail |-> ""]
    /\ snapshot' = [recovery_score |-> 0, additional_metrics |-> NoMetrics]
    /\ full_prompt' = FullPrompt(0, NoMetrics)
    /\ art_requested' = TRUE

\* line 201-204 and 223-224: no record, recovery_score stays None
NoRecords ==
    /\ page_error' = [message |-> "No recovery data available.", detail |-> ""]
    /\ snapshot' = NoSnapshot
    /\ full_prompt' = NoPrompt
    /\ art_requested' = FALSE

\* line 186-233: the metrics request and, with a record, the art request
FetchAndDraw ==
    \E o \in FetchOutcomes :
        /\ fetch' = o
        /\ IF o = "records"
           THEN \E record \in SampleRecords : DrawArt(record)
           ELSE IF o = "no_records"
           THEN NoRecords
           ELSE /\ page_error' \in FetchError(o)
                /\ snapshot' = NoSnapshot
                /\ full_prompt' = NoPrompt
                /\ art_requested' = FALSE

\* variant of Body that runs the fetch of lines 186-233 without a token too
Body_FetchesWithoutToken ==
    /\ pc = "body"
    /\ pc' = "idle"
    /\ FetchAndDraw
    /\ IF ~Truthy(oauth_token)
       THEN /\ rendered' = {"login"}
            /\ IF clicked = "login"
               THEN BeginLogin
               ELSE UNCHANGED <<oauth_state, oauth_token, auth_url, hist>>
       ELSE /\ rendered' = {"logout"}
            /\ IF clicked = "logout"
               THEN Logout
               ELSE UNCHANGED <<oauth_state, oauth_token, auth_url, hist>>
    /\ UNCHANGED <<query_params, clicked, received_state, result,
                   token_response, token_requests, tok0>>

\* line 150-240
Body ==
    /\ pc = "body"
    /\ pc' = "idle"
    /\ IF ~Truthy(oauth_token)
       THEN /\ rendered' = {"login"}
            /\ UNCHANGED <<fetch, art_requested, page_error, snapshot, full_prompt>>
            /\ IF clicked = "login"
               THEN BeginLogin
               ELSE UNCHANGED <<oauth_state, oauth_token, auth_url, hist>>
       ELSE /\ rendered' = {"logout"}
            /\ FetchAndDraw
            /\ IF clicked = "logout"
               THEN Logout
               ELSE UNCHANGED <<oauth_state, oauth_token, auth_url, hist>>
    /\ UNCHANGED <<query_params, clicked, received_state, result,
                   token_response, token_requests, tok0>>

Next ==
    \/ Navigate
    \/ Click
    \/ Body

Spec ==
    Init /\ [][Next]_vars

\* ------------------------------ generate_ai_art on its own, lines 22-78
\* one call of generate_ai_art for every recovery score and every dict of
\* optional metrics; the session is not touched
PromptInit ==
    /\ oauth_state = ""
    /\ oauth_token = None
    /\ query_params = NoParams
    /\ pc = "generate_ai_art"
    /\ clicked = "none"
    /\ rendered = {"login"}
    /\ received_state = "-"
    /\ result = "none"
    /\ token_response = NoResponse
    /\ token_requests = <<>>
    /\ auth_url = NoUrl
    /\ fetch = "none"
    /\ art_requested = FALSE
    /\ page_error = NoError
    /\ snapshot \in Snapshots
    /\ full_prompt = NoPrompt
    /\ issued = {}
    /\ issuedSinceLogout = {}
    /\ succeeded = {}
    /\ failed = {}
    /\ tok0 = None

\* line 34-78: the prompt is compiled and handed to the image generator
BuildPrompt ==
    /\ pc = "generate_ai_art"
    /\ pc' = "requested"
    /\ full_prompt' = FullPrompt(snapshot.recovery_score, snapshot.additional_metrics)
    /\ art_requested' = TRUE
    /\ UNCHANGED <<oauth_state, oauth_token, query_params, clicked, rendered,
                   received_state, result, token_response, token_requests,
                   auth_url, fetch, page_error, snapshot, hist, tok0>>

PromptNext ==
    BuildPrompt

PromptSpec ==
    PromptInit /\ [][PromptNext]_vars

TypeOK ==
    /\ oauth_state \in StateValues
    /\ oauth_token \in Tokens \cup {None}
    /\ query_params \in QueryParams
    /\ pc \in {"idle", "body"}
    /\ clicked \in {"none", "login", "logout"}
    /\ rendered \in {{"login"}, {"logout"}}

\* ------------------------------------------------------ steps of a run
\* the step that handles the callback (lines 108-148)
CallbackStep ==
    pc = "idle" /\ pc' = "body"

\* the step in which the login button's body runs (lines 152-170)
LoginStep ==
    pc = "body" /\ pc' = "idle" /\ clicked = "login" /\ ~Truthy(oauth_token)

\* the step in which the logout button's body runs (lines 237-240)
LogoutStep ==
    pc = "body" /\ pc' = "idle" /\ clicked = "logout" /\ Truthy(oauth_token)

ExchangeFailures ==
    {"http_error", "transport_error", "bad_json"}

\* ------------------------------------------------------------- claims
\* C1: a callback with the matching state and an accepted code stores a
\* token, and every later callback carrying a state whose callback has
\* already stored a token (since that state was issued) is rejected with
\* InvalidState without a token request.
C1_StateAcceptedOnce ==
    [][CallbackStep =>
        /\ (received_state' \in succeeded) =>
              (result' = "InvalidState" /\ token_requests' = <<>>)
        /\ (token_response'.outcome = "ok" /\ received_state' \notin succeeded) =>
              result' = "Success"]_vars

\* C2: a state whose matching callback failed in the token exchange is no
\* longer accepted: a later callback carrying it is rejected with
\* InvalidState.
C2_StateConsumedOnFailure ==
    [][(CallbackStep /\ received_state' \in failed) =>
          result' = "InvalidState"]_vars

\* C3: a callback whose non-empty state differs from the state the session
\* holds fails with InvalidState, sends no token request and leaves the
\* session without a token.
C3_InvalidStateClearsToken ==
    [][(CallbackStep /\ received_state' \notin {"-", ""}
                     /\ received_state' # oauth_state) =>
          /\ result' = "InvalidState"
          /\ token_requests' = <<>>
          /\ oauth_token' = None]_vars

\* a token was stored and a callback with a foreign state removed it
C3_Witness ==
    /\ pc = "body"
    /\ result = "InvalidState"
    /\ tok0 # None
    /\ oauth_token = None

\* C4: a callback with an empty state fails with MissingState whatever the
\* code and the session are; it sends no token request and changes neither
\* the stored token nor the stored state.
C4_EmptyStateIsMissingState ==
    [][(CallbackStep /\ received_state' = "") =>
          /\ result' = "MissingState"
          /\ token_requests' = <<>>
          /\ UNCHANGED <<oauth_token, oauth_state>>]_vars

\* an empty state arrived in a session that has never issued a state
C4_Witness ==
    /\ pc = "body"
    /\ result = "MissingState"
    /\ oauth_state = ""
    /\ issued = {}

\* C5: when the token exchange fails, the callback reports an error and the
\* stored token is the one stored before the callback.
C5_FailedExchangeStoresNothing ==
    [][(CallbackStep /\ token_response'.outcome \in ExchangeFailures) =>
          /\ result' \in {"TokenExchangeFailed", "UnexpectedError"}
          /\ oauth_token' = oauth_token]_vars

\* an exchange failed in a session that held a token, and the token is kept
C5_Witness ==
    /\ pc = "body"
    /\ token_response.outcome \in ExchangeFailures
    /\ tok0 # None
    /\ oauth_token = tok0

\* C6: logout leaves no token, and a session without a token gets one only
\* from a callback that carries a state issued since the last logout and
\* whose exchange succeeds.
C6_LogoutClearsUntilNewLogin ==
    [][/\ LogoutStep => oauth_token' = None
       /\ (oauth_token = None /\ oauth_token' # None) =>
             /\ CallbackStep
             /\ received_state' \in issuedSinceLogout
             /\ token_response'.outcome = "ok"]_vars

\* after a logout, a callback with a state issued before it was rejected
C6_Witness ==
    /\ pc = "body"
    /\ result = "InvalidState"
    /\ received_state \in issued \ issuedSinceLogout
    /\ oauth_token = None

\* C7: every press of the login button issues a state, stores it and shows
\* an authorization URL carrying it, also while an earlier state is stored.
C7_EveryLoginIssuesState ==
    [][LoginStep =>
          /\ auth_url' # NoUrl
          /\ oauth_state' \in States
          /\ Param(auth_url', "state") = oauth_state']_vars

\* C8: the login button's step never changes the stored token, and a stored
\* token changes only in a callback that succeeds or reports InvalidState,
\* or in a logout.
C8_LoginKeepsToken ==
    [][/\ (pc = "body" /\ clicked = "login") => oauth_token' = oauth_token
       /\ (oauth_token # None /\ oauth_token' # oauth_token) =>
             \/ CallbackStep /\ result' \in {"Success", "InvalidState"}
             \/ LogoutStep]_vars

\* the login button issued a state and the token is what it was
C8_Witness ==
    /\ pc = "idle"
    /\ auth_url # NoUrl
    /\ oauth_state \in States
    /\ oauth_token = tok0

\* C9: after a callback whose state matched and whose exchange succeeded,
\* the session's token is the body of that response, whatever token the
\* session held before.
C9_TokenIsProviderResponse ==
    [][CallbackStep =>
          /\ token_response'.outcome = "ok" =>
                /\ oauth_token' = token_response'.token
                /\ result' = "Success"
          /\ token_requests' # <<>> =>
                (Truthy(received_state') /\ received_state' = oauth_state)]_vars

\* a successful callback replaced a different token of the same session
C9_Witness ==
    /\ pc = "body"
    /\ result = "Success"
    /\ tok0 # None
    /\ tok0 # oauth_token
    /\ oauth_token = token_response.token

\* C10: the authorization URL carries client_id, redirect_uri,
\* response_type=code, scope and state, its state is the stored one and its
\* redirect_uri is the one sent in the token request.
C10_AuthorizationUrlParameters ==
    /\ auth_url # NoUrl =>
          /\ {"client_id", "redirect_uri", "response_type", "scope", "state"}
                \subseteq ParamKeys(auth_url)
          /\ Param(auth_url, "response_type") = "code"
          /\ Param(auth_url, "state") = oauth_state
          /\ Param(auth_url, "redirect_uri") = REDIRECT_URI
    /\ \A i \in DOMAIN token_requests :
          token_requests[i].redirect_uri = REDIRECT_URI

\* the step that runs the page body (lines 150-240)
BodyStep ==
    pc = "body" /\ pc' = "idle"

\* the adjective a strain sentence of the prompt describes the lines with
StrainAdjective(text) ==
    CASE text = "Depict strain ({strain}%) with compact, intertwined lines." -> "compact"
      [] text = "Depict strain ({strain}%) with bold, intertwined lines." -> "bold"
      [] OTHER -> ""

HighColour ==
    "Dominant colors are vibrant greens and blues, representing high recovery ({recovery_score}% recovery score)."
ModerateColour ==
    "Mix of warm yellows and cool blues, balancing moderate recovery ({recovery_score}% recovery score)."
LowColour ==
    "Subdued reds and greys dominate, indicating low recovery ({recovery_score}% recovery score)."

\* the keys of MetricKeys that a dict of metrics holds, in the order of MetricKeys
PresentKeys(metrics) ==
    LET Held(k) == k \in DOMAIN metrics
    IN  SelectSeq(MetricKeys, Held)

\* the sentence lines 55-63 write for one key
MetricClause(key, value) ==
    CASE key = "sleep_quality" -> sleep_prompt(value)
      [] key = "strain" -> strain_prompt(value)
      [] key = "hrv" -> hrv_prompt(value)

\* the sentences of a prompt that describe strain
StrainClauses(prompt) ==
    {prompt[i] : i \in {j \in DOMAIN prompt : StrainAdjective(prompt[j].text) # ""}}

\* C11: the colour sentence of the prompt is the high-recovery one for
\* scores 81..100, the moderate one for 51..80 and the low-recovery one for
\* 0..50, and it carries the score.
C11_StrictColourBands ==
    pc = "requested" =>
        LET score == snapshot.recovery_score
            colour == full_prompt[2]
        IN  /\ colour.value = score
            /\ score \in 81..100 => colour.text = HighColour
            /\ score \in 51..80 => colour.text = ModerateColour
            /\ score \in 0..50 => colour.text = LowColour

\* a score of exactly 80 got the moderate sentence
C11_Witness ==
    /\ pc = "requested"
    /\ snapshot.recovery_score = 80
    /\ full_prompt[2].text = ModerateColour

C13_PromptEndsWithClosingSentence ==
    pc = "requested" =>
        LET present == PresentKeys(snapshot.additional_metrics)
        IN  /\ Len(full_prompt) = 6 + Len(present) + 1
            /\ full_prompt[1] = base_prompt
            /\ full_prompt[2].value = snapshot.recovery_score
            /\ SubSeq(full_prompt, 3, 6) = pattern_prompt(snapshot.recovery_score)
            /\ \A i \in 1..Len(present) :
                  full_prompt[6 + i] =
                      MetricClause(present[i], snapshot.additional_metrics[present[i]])
            /\ full_prompt[Len(full_prompt)].value = -1

\* C13 as amended: the prompt is the base sentence, the colour sentence, the
\* four shape sentences and one sentence for each metric key present, in the
\* order sleep quality, strain, HRV; nothing follows the last of them.
C13_PromptOrder ==
    pc = "requested" =>
        LET present == PresentKeys(snapshot.additional_metrics)
        IN  /\ Len(full_prompt) = 6 + Len(present)
            /\ full_prompt[1] = base_prompt
            /\ full_prompt[2].value = snapshot.recovery_score
            /\ full_prompt[2].text \in {HighColour, ModerateColour, LowColour}
            /\ SubSeq(full_prompt, 3, 6) = pattern_prompt(snapshot.recovery_score)
            /\ \A i \in 1..Len(present) :
                  full_prompt[6 + i] =
                      MetricClause(present[i], snapshot.additional_metrics[present[i]])

\* a prompt with all three metric sentences, the HRV sentence last
C13_Witness ==
    /\ pc = "requested"
    /\ DOMAIN snapshot.additional_metrics = {"sleep_quality", "strain", "hrv"}
    /\ Len(full_prompt) = 9
    /\ full_prompt[9] = hrv_prompt(snapshot.additional_metrics["hrv"])

\* C14: a metrics fetch that gives no record ends in an error (with the
\* 401/403 status in it, with the failure in it, or "no recovery data"), and
\* in that run no prompt is built and no image request is made.
C14_NoRecordNoArt ==
    [][BodyStep =>
        /\ fetch' \in {"http_401", "http_403"} =>
              /\ page_error'.message = "Error fetching WHOOP data"
              /\ page_error'.detail \in {"401 Client Error: Unauthorized",
                                         "403 Client Error: Forbidden"}
        /\ fetch' \in {"http_error", "transport_error", "bad_json"} =>
              page_error'.message \in {"Error fetching WHOOP data", "Unexpected error"}
        /\ fetch' = "no_records" =>
              page_error'.message = "No recovery data available."
        /\ fetch' \notin {"none", "records"} =>
              /\ page_error' # NoError
              /\ ~art_requested'
              /\ full_prompt' = NoPrompt]_vars

\* a response without records was reported and nothing was drawn
C14_Witness ==
    /\ pc = "idle"
    /\ fetch = "no_records"
    /\ page_error.message = "No recovery data available."
    /\ ~art_requested

\* C15: a callback whose exchange succeeds leaves no query parameters, and
\* the run that a click starts after it reads no callback and makes no
\* token request.
C15_SuccessClearsQueryParams ==
    [][CallbackStep =>
        /\ result' = "Success" => query_params' = NoParams
        /\ (result = "Success" /\ clicked' # "none") =>
              (received_state' = "-" /\ token_requests' = <<>>)]_vars

\* a click reran the script after a successful callback and the state that
\* had been accepted was not read again
C15_Witness ==
    /\ pc = "body"
    /\ clicked = "logout"
    /\ oauth_state \in succeeded
    /\ received_state = "-"
    /\ token_requests = <<>>
    /\ oauth_token # None

\* C16: a stored token implies a non-empty stored state, one that the login
\* button issued since the session started or since the last logout.
C16_TokenImpliesState ==
    oauth_token # None =>
        (oauth_state # "" /\ oauth_state \in issuedSinceLogout)

\* a token is stored together with the state that admitted it
C16_Witness ==
    /\ oauth_token \in Tokens
    /\ oauth_state \in States
    /\ result = "Success"

\* C17: a non-empty stored state changes only in a logout; the login button
\* pressed while a state is stored issues nothing and shows no URL; the
\* callback handling never changes the stored state.
C17_StateChangedOnlyByLogout ==
    [][/\ (oauth_state # "" /\ oauth_state' # oauth_state) =>
             (LogoutStep /\ oauth_state' = "")
       /\ (LoginStep /\ oauth_state # "") =>
             (auth_url' = NoUrl /\ oauth_state' = oauth_state /\ issued' = issued)
       /\ CallbackStep => oauth_state' = oauth_state]_vars

\* the login button was pressed with a state stored and showed no URL
C17_Witness ==
    /\ pc = "idle"
    /\ clicked = "login"
    /\ oauth_token = None
    /\ oauth_state \in States
    /\ auth_url = NoUrl

\* C18: the page body requests metrics or art only when a token is stored
\* after the callback handling, and it renders the logout button with a
\* token and the login button without one, never both.
C18_RequestsNeedToken ==
    [][BodyStep =>
        /\ (fetch' # "none" \/ art_requested') => Truthy(oauth_token)
        /\ ~Truthy(oauth_token) => (fetch' = "none" /\ ~art_requested'
                                      /\ full_prompt' = NoPrompt)
        /\ rendered' = (IF Truthy(oauth_token) THEN {"logout"} ELSE {"login"})]_vars

\* a token was cleared by InvalidState and the body of that run requested
\* nothing
C18_Witness ==
    /\ pc = "idle"
    /\ result = "InvalidState"
    /\ tok0 # None
    /\ oauth_token = None
    /\ fetch = "none"
    /\ rendered = {"login"}

====
